---- MODULE Spec2Model ----
(***************************************************************************)
(* Print-job orchestration of the dashboard (src/static/dashboard.js).     *)
(*                                                                         *)
(* dashboard.js holds two declarations of class PrintDashboard.  The first *)
(* (lines 3-602) submits documents and test pages and follows both with    *)
(* simulateJobProgress; the second (lines 614-1548) follows documents with *)
(* monitorJobProgress and has no simulateJobProgress method, so the call   *)
(* in its printTestPage throws inside the try block.  The queue and        *)
(* history methods of the two declarations are the same text.  The         *)
(* variable classVersion says which declaration the page runs.             *)
(*                                                                         *)
(* A job object is shared by reference between jobQueue and the closures   *)
(* of the submit handler, of the interval callbacks and of the timers; the *)
(* model keeps the objects in job (indexed by the object, which is also    *)
(* the id the session gave it) and jobQueue holds the indices.  History    *)
(* entries are copies ({...job}) and so are records of their own.          *)
(***************************************************************************)
EXTENDS Integers, Sequences, FiniteSets, TLC

\* ---------------------------------------------------------------- bounds
MaxJobs == 2        \* job objects of one page session (SpecQueue)
MaxSoloJobs == 1    \* jobs submitted in a session of Spec
MaxInflight == 2    \* status requests of one monitor awaiting a response (Spec)
MaxQueueInflight == 1  \* the same in SpecQueue
MaxTimers == 1      \* removal timeouts of one job that are told apart
LoadedLen == 19     \* length of the non-empty history found in localStorage
MaxRangeLen == 4    \* characters of a page-range input that is enumerated
MaxFormJobs == 1    \* jobs submitted in a session of SpecForm
MaxPosts == 1       \* submit requests of app.js awaiting their response
MaxServerJobs == 3  \* jobs the print server holds

\* ------------------------------------------------------ program constants
HistoryCap == 20    \* addJobToHistory: "Keep only last 20 jobs"

Refs == 1..MaxJobs

Terminal == {"completed", "error", "cancelled"}

\* Math.random() * 10 + 5 is a real number of [5, 15): the fallback steps of
\* the monitor, one of them not a multiple of 5
FallbackSteps == {5, 7, 10}
\* Math.random() * 15 + 5 lies in [5, 20): the steps of the simulation
SimulateSteps == {5, 15}
CoarseSimulateSteps == {15}
\* printerStatus.status as the server reports it
PrinterStatuses == {"ready", "error", "offline"}
\* (pages_printed, total_pages) of the queue entry that matches the job
PageCounts == {<<0, 2>>, <<1, 2>>, <<2, 2>>, <<1, 0>>}

\* What one status request of a monitor tick comes back with: an OK response
\* with a queue entry that matches the job or with none, or a failure.
OkResponses(pageCounts) ==
       { [kind |-> "ok", matched |-> TRUE, printed |-> pc[1], total |-> pc[2],
          pstatus |-> s, rnd |-> 0] : pc \in pageCounts, s \in PrinterStatuses }
  \cup { [kind |-> "ok", matched |-> FALSE, printed |-> 0, total |-> 0,
          pstatus |-> s, rnd |-> 0] : s \in PrinterStatuses }
FailedResponses ==
  { [kind |-> k, matched |-> FALSE, printed |-> 0, total |-> 0,
     pstatus |-> "ready", rnd |-> d] : k \in {"notOk", "throw"}, d \in FallbackSteps }
StatusResponses == OkResponses(PageCounts) \cup FailedResponses
\* The responses of a status endpoint that answers every request and reports
\* the printer as neither offline nor in error; the quiet ones hold no queue
\* entry that matches the job
ReadyResponses == { resp \in OkResponses(PageCounts) : resp.pstatus = "ready" }
QuietResponses == { resp \in ReadyResponses : ~ resp.matched }
\* The responses of a printer that answers every request and reports the
\* matching entry with no page or with every page printed.
CoarseResponses == OkResponses({<<0, 2>>, <<2, 2>>})

Min(a, b) == IF a < b THEN a ELSE b

\* ------------------------------------------------------------ page ranges
\* A string is the sequence of its characters.
Digits == <<"0", "1", "2", "3", "4", "5", "6", "7", "8", "9">>
IsDigit(c) == \E i \in 1..Len(Digits) : Digits[i] = c      \* \d
IsSpace(c) == c \in {" ", "\t", "\n"}                      \* \s
NoText == <<>>     \* the empty string; also stands for null (both are falsy)
OddText == <<"o", "d", "d">>
EvenText == <<"e", "v", "e", "n">>

\* String.prototype.trim()
RECURSIVE TrimStart(_)
TrimStart(s) == IF s # <<>> /\ IsSpace(Head(s)) THEN TrimStart(Tail(s)) ELSE s
RECURSIVE TrimEnd(_)
TrimEnd(s) ==
  IF s # <<>> /\ IsSpace(s[Len(s)]) THEN TrimEnd(SubSeq(s, 1, Len(s) - 1)) ELSE s
Trim(s) == TrimEnd(TrimStart(s))

\* pageRange.replace(/\s/g, '')
RECURSIVE StripSpace(_)
StripSpace(s) ==
  IF s = <<>> THEN <<>>
  ELSE IF IsSpace(Head(s)) THEN StripSpace(Tail(s))
  ELSE <<Head(s)>> \o StripSpace(Tail(s))

\* One step of the automaton of /^\d+(-\d+)?(,\s*\d+(-\d+)?)*$/ (spaces: TRUE)
\* and of /^\d+(-\d+)?(,\d+(-\d+)?)*$/ (spaces: FALSE): st says what has been
\* matched of the current token.
PatternStep(st, c, spaces) ==
  CASE st = "start" /\ IsDigit(c) -> "first"
    [] st = "first" /\ IsDigit(c) -> "first"
    [] st = "first" /\ c = "-" -> "hyphen"
    [] st = "hyphen" /\ IsDigit(c) -> "second"
    [] st = "second" /\ IsDigit(c) -> "second"
    [] st \in {"first", "second"} /\ c = "," -> "comma"
    [] st = "comma" /\ spaces /\ IsSpace(c) -> "comma"
    [] st = "comma" /\ IsDigit(c) -> "first"
    [] OTHER -> "fail"

RECURSIVE PatternRun(_, _, _)
PatternRun(s, st, spaces) ==
  IF s = <<>> THEN st ELSE PatternRun(Tail(s), PatternStep(st, Head(s), spaces), spaces)

\* pageRangePattern.test(s) of printDocument
pageRangePattern(s) == PatternRun(s, "start", TRUE) \in {"first", "second"}

\* validatePageRange(pageRange) of app.js
validatePageRange(pageRange) ==
  PatternRun(StripSpace(pageRange), "start", FALSE) \in {"first", "second"}

\* ---------------------------------------------------------------- numbers
\* The number a string of decimal digits denotes
DigitValue(c) == CHOOSE n \in 0..9 : Digits[n + 1] = c
RECURSIVE NumberValue(_)
NumberValue(t) ==
  IF t = <<>> THEN 0
  ELSE NumberValue(SubSeq(t, 1, Len(t) - 1)) * 10 + DigitValue(t[Len(t)])

RECURSIVE DigitPrefix(_)
DigitPrefix(s) ==
  IF s # <<>> /\ IsDigit(Head(s)) THEN <<Head(s)>> \o DigitPrefix(Tail(s)) ELSE <<>>

\* parseInt(s): leading white space skipped, an optional sign, then the
\* longest run of digits; NaN when there is none
parseInt(s) ==
  LET t == TrimStart(s)
      signed == t # <<>> /\ Head(t) \in {"-", "+"}
      d == DigitPrefix(IF signed THEN Tail(t) ELSE t)
  IN IF d = <<>> THEN [nan |-> TRUE, val |-> 0]
     ELSE [nan |-> FALSE,
           val |-> IF signed /\ Head(t) = "-" THEN 0 - NumberValue(d) ELSE NumberValue(d)]

\* x || 1 for a number x: 1 when x is NaN or 0
OrOne(x) == IF x.nan \/ x.val = 0 THEN 1 ELSE x.val

\* JSON.stringify of a number: its decimal digits, null for NaN
RECURSIVE NumberText(_)
NumberText(n) ==
  IF n < 0 THEN <<"-">> \o NumberText(0 - n)
  ELSE IF n < 10 THEN <<Digits[n + 1]>>
  ELSE NumberText(n \div 10) \o <<Digits[(n % 10) + 1]>>
NullText == <<"n", "u", "l", "l">>
JsonNumber(x) == IF x.nan THEN NullText ELSE NumberText(x.val)

\* rec.name in JavaScript: undefined when the object has no such property
Field(rec, name) == IF name \in DOMAIN rec THEN rec[name] ELSE "undefined"

\* The page-range inputs a user types: every string of at most MaxRangeLen
\* characters of RangeAlphabet, and some longer or lettered ones.
RangeAlphabet == {"0", "1", "5", "-", ",", " "}
ShortTexts == UNION { [1..n -> RangeAlphabet] : n \in 0..MaxRangeLen }
SampleTexts ==
  { <<"1", "-", "5", ",", "8", ",", "1", "0", "-", "1", "2">>,
    <<"1", "-", "5", ",", " ", "8", ",", " ", "1", "0", "-", "1", "2">>,
    <<"a", "b", "c">>, OddText, EvenText,
    <<"1", "-", "5", ",", "8", "-">>, <<"1", "2", "-", "3">> }
RangeTexts == ShortTexts \cup SampleTexts

\* ------------------------------------------------------------------ forms
\* What the page holds when a submit handler runs.  page is the script the
\* page runs ("dashboard": static/dashboard.js, "app": web/app.js);
\* currentFile is this.currentFile; currentFileId (both scripts) is "null",
\* the id of a file the server holds ("known") or of one it no longer holds
\* ("unknown"); selectedPrinter is this.selectedPrinter or the value of
\* #printerSelect, "null" (nothing selected), "known" or "unknown" to the
\* server; pageRangeType and pageRangeInput are the two page-range controls.
\* copies, fitToPage, customScale are the controls of those names; pdfSplit
\* and splitRange are #pdf-split and #split-range; targetFormat,
\* colorProcessing, brightness and contrast are the document-processing
\* controls.  Text inputs are strings, selects are their option values.
\* A dashboard with an uploaded file, a selected printer and every setting
\* at its default
ReadyForm ==
  [page |-> "dashboard", currentFile |-> "file", currentFileId |-> "known",
   selectedPrinter |-> "known", pageRangeType |-> "all", pageRangeInput |-> NoText,
   copies |-> <<"1">>, fitToPage |-> "fit", customScale |-> <<"1", "0", "0">>,
   pdfSplit |-> "none", splitRange |-> NoText,
   targetFormat |-> "none", colorProcessing |-> "none",
   brightness |-> <<"1">>, contrast |-> <<"1">>]
RefForms ==
  { [ReadyForm EXCEPT !.page = pg, !.currentFile = cf, !.currentFileId = id,
                      !.selectedPrinter = pr, !.pageRangeType = ty,
                      !.pageRangeInput = tx] :
      pg \in {"dashboard", "app"}, cf \in {"null", "file"},
      id \in {"null", "known", "unknown"}, pr \in {"null", "known", "unknown"},
      ty \in {"all", "range", "odd", "even"}, tx \in {NoText, <<"1", "-", "5">>} }
RangeForms ==
  { [ReadyForm EXCEPT !.page = pg, !.pageRangeType = "range", !.pageRangeInput = tx] :
      pg \in {"dashboard", "app"}, tx \in RangeTexts }
\* The values typed into the copies and the custom-scale inputs
CopiesTexts == {NoText, <<"0">>, <<"1">>, <<"2">>, <<"-", "1">>}
ScaleTexts == {NoText, <<"0">>, <<"5", "0">>, <<"-", "5">>}
\* Forms that differ in copies and scaling; the custom-scale input is a
\* control of app.js
SettingsForms ==
  { [ReadyForm EXCEPT !.page = pg, !.copies = cp, !.fitToPage = fit, !.customScale = sc] :
      pg \in {"dashboard", "app"}, cp \in CopiesTexts,
      fit \in {"none", "fit", "custom"}, sc \in ScaleTexts }
\* Dashboard forms that differ in the split and document-processing controls
ProcessingForms ==
  { [ReadyForm EXCEPT !.pdfSplit = sp, !.splitRange = sr, !.targetFormat = tf,
                      !.colorProcessing = cl, !.brightness = br, !.contrast = ct] :
      sp \in {"none", "single", "pages"},
      sr \in {NoText, <<" ">>, <<"1", "-", "2">>, <<" ", "3">>},
      tf \in {"none", "pdf"}, cl \in {"none", "grayscale"},
      br \in {<<"1">>, <<"2">>}, ct \in {<<"1">>, <<"2">>} }
\* processFile sets currentFile before the upload gives currentFileId;
\* app.js has no currentFile
Forms ==
  { f \in RefForms \cup RangeForms \cup SettingsForms \cup ProcessingForms :
      /\ f.currentFileId # "null" => f.currentFile = "file"
      /\ f.page = "app" => f.currentFile = "file"
      /\ f.fitToPage = "custom" => f.page = "app" }

AllText == <<"a", "l", "l">>

\* getPrintSettings() with a "single" split that leaves the range null
getPrintSettingsSingleNoRange(f) ==
  [copies |-> OrOne(parseInt(f.copies)),
   page_range |->
     IF f.pageRangeType = "range" /\ Trim(f.pageRangeInput) # NoText
     THEN Trim(f.pageRangeInput)
     ELSE IF f.pageRangeType = "odd" THEN OddText
     ELSE IF f.pageRangeType = "even" THEN EvenText
     ELSE NoText,
   fit_to_page |-> f.fitToPage,
   split_pdf |-> (f.pdfSplit = "pages" /\ Trim(f.splitRange) # NoText)
                 \/ f.pdfSplit = "single",
   split_page_range |->
     IF f.pdfSplit = "pages" /\ Trim(f.splitRange) # NoText THEN Trim(f.splitRange)
     ELSE NoText]

\* getPrintSettings() of the second class
getPrintSettings(f) ==
  [copies |-> OrOne(parseInt(f.copies)),
   page_range |->
     IF f.pageRangeType = "range" /\ Trim(f.pageRangeInput) # NoText
     THEN Trim(f.pageRangeInput)
     ELSE IF f.pageRangeType = "odd" THEN OddText
     ELSE IF f.pageRangeType = "even" THEN EvenText
     ELSE NoText,
   fit_to_page |-> f.fitToPage,
   split_pdf |-> (f.pdfSplit = "pages" /\ Trim(f.splitRange) # NoText)
                 \/ f.pdfSplit = "single",
   split_page_range |->
     IF f.pdfSplit = "pages" /\ Trim(f.splitRange) # NoText THEN Trim(f.splitRange)
     ELSE IF f.pdfSplit = "single" THEN AllText
     ELSE NoText]

\* getPrintSettings() of the first class has copies only (of these fields)
getPrintSettingsFirst(f) ==
  [copies |-> OrOne(parseInt(f.copies)), page_range |-> NoText,
   fit_to_page |-> "undefined", split_pdf |-> FALSE, split_page_range |-> NoText]

\* getDocumentProcessingSettings(): the class body defines the method twice
\* (lines 1115 and 1510) and the later definition is the method of the
\* class.  target_format .. split_range are the properties it returns.
getDocumentProcessingSettings(f) ==
  [target_format |-> f.targetFormat,
   color_processing |-> f.colorProcessing,
   brightness |-> parseInt(f.brightness),
   contrast |-> parseInt(f.contrast),
   pdf_split |-> f.pdfSplit,
   split_range |-> f.splitRange]

\* The fields of a request body that a request does not carry
BlankBody ==
  [endpoint |-> "none", printer_id |-> "undefined", file_id |-> "undefined",
   page_range |-> NoText, copies |-> NoText, fit_to_page |-> "undefined",
   has_custom_scale |-> FALSE, custom_scale |-> NoText,
   format_conversion |-> "undefined", color_processing |-> "undefined",
   brightness |-> NoText, contrast |-> NoText,
   pdf_split_type |-> "undefined", pdf_split_range |-> "undefined"]

VARIABLES
  classVersion,  \* 1 or 2: the class declaration of dashboard.js in use
  job,           \* the job objects: job[r] is the object created with id r
  jobQueue,      \* this.jobQueue: sequence of references to job objects
  jobHistory,    \* this.jobHistory: sequence of copies, most recent first
  storage,       \* localStorage['printJobHistory']
  jobIdCounter,  \* this.jobIdCounter
  request,       \* request[r]: the submit fetch of job r: "none" before it, "doc"
                 \* (printDocument) or "test" (printTestPage) in flight, "ok"
                 \* or "failed" once the response (or the network error) came
  task,          \* task[r]: the interval started for job r and its polls;
                 \* intervals counts the setInterval calls made for the job
  timers,        \* timers[r]: pending setTimeout(removeJobFromQueue(r))
  cancelledFrom, \* history variable: status of r when cancelJob last hit it
                 \* (kept in Spec, left at "none" in SpecQueue)
  form,          \* the file, the printer and the page-range controls of the page
  message,       \* the last error a submit handler showed before sending
  submitted,     \* the bodies of the print requests sent to the server
  posts,         \* submit requests of app.js awaiting their response
  serverJobs,    \* the jobs of the print server, oldest first
  jobsTable,     \* the rows displayJobs rendered into #jobsContainer
  uploads        \* the files whose upload by processFile awaits its response

vars == <<classVersion, job, jobQueue, jobHistory, storage, jobIdCounter,
          request, task, timers, cancelledFrom, form, message, submitted, posts,
          serverJobs, jobsTable, uploads>>

\* error is job.error: "none" while the property is not set, else the
\* printerStatus.status the message `Printer ${status}: ...` names
\* printer is job.printer and settings is job.settings
NoSettings ==
  [copies |-> 0, page_range |-> NoText, fit_to_page |-> "undefined",
   split_pdf |-> FALSE, split_page_range |-> NoText]
NoJob == [id |-> 0, status |-> "none", progress |-> 0, error |-> "none",
          printer |-> "none", settings |-> NoSettings]
NoTask == [kind |-> "none", active |-> FALSE, inflight |-> 0, intervals |-> 0]

\* setTimeout(() => removeJobFromQueue(jobId), ...), n times.  Every pending
\* timeout of a job runs the same call, which finds the job gone once one of
\* them has run (a job never returns to the queue), so timeouts beyond
\* MaxTimers are not told apart.
SetTimeouts(t, jobId, n) == [t EXCEPT ![jobId] = Min(MaxTimers, @ + n)]

\* ------------------------------------------------------------- the queue
\* jobQueue.findIndex(j => j.id === jobId); 0 stands for -1
FindIndex(q, jobId) ==
  IF \E i \in 1..Len(q) : job[q[i]].id = jobId
  THEN CHOOSE i \in 1..Len(q) :
         /\ job[q[i]].id = jobId
         /\ \A k \in 1..(i - 1) : job[q[k]].id # jobId
  ELSE 0

InQueue(r) == \E i \in 1..Len(jobQueue) : jobQueue[i] = r

\* addJobToQueue without the push
addJobToQueueNoPush(q, r) == q

addJobToQueue(q, r) == Append(q, r)

updateJobInQueue(q, r) ==
  LET index == FindIndex(q, r) IN
  IF index # 0 THEN [q EXCEPT ![index] = r] ELSE q

\* jobQueue.splice(jobIndex, 1)
Splice(q, i) == SubSeq(q, 1, i - 1) \o SubSeq(q, i + 1, Len(q))

\* ----------------------------------------------------------- the history
\* {...job, completedAt: new Date()}: a copy of the object as it is now.  Of
\* the copied fields the record keeps the id and the status; completedAt is
\* the representation of the time stamp (a Date object, or the string JSON
\* makes of it); obj is a history variable, the object the entry was copied
\* from (0: a job of an earlier session).
HistoryEntry(j, r) ==
  [id |-> j.id, status |-> j.status, completedAt |-> "Date", obj |-> r]

\* addJobToHistory with slice(-20) for slice(0, 20): keeps the oldest entries
addJobToHistoryKeepLast(h, e) ==
  LET unshifted == <<e>> \o h IN
  IF Len(unshifted) > HistoryCap
  THEN SubSeq(unshifted, Len(unshifted) - HistoryCap + 1, Len(unshifted))
  ELSE unshifted

addJobToHistory(h, e) ==
  LET unshifted == <<e>> \o h IN
  IF Len(unshifted) > HistoryCap THEN SubSeq(unshifted, 1, HistoryCap) ELSE unshifted

\* localStorage.setItem('printJobHistory', JSON.stringify(this.jobHistory)):
\* the records in their order, every Date written as its ISO string
saveJobHistory(h) == [i \in 1..Len(h) |-> [h[i] EXCEPT !.completedAt = "string"]]
\* JSON.parse(saved): the records as written, the strings left as strings
loadJobHistory(saved) == saved

\* A history an earlier session of the page left in localStorage: LoadedLen
\* documents that completed one after the other, most recent first.
LoadedHistory ==
  [i \in 1..LoadedLen |->
     [id |-> LoadedLen + 1 - i, status |-> "completed", completedAt |-> "Date", obj |-> 0]]

\* ------------------------------------------------------------------ Init
InitSession ==
  /\ classVersion \in {1, 2}
  /\ storage \in {<<>>, saveJobHistory(LoadedHistory)}
  /\ jobHistory = loadJobHistory(storage)
  /\ job = [r \in Refs |-> NoJob]
  /\ jobQueue = <<>>
  /\ jobIdCounter = 1
  /\ request = [r \in Refs |-> "none"]
  /\ task = [r \in Refs |-> NoTask]
  /\ timers = [r \in Refs |-> 0]
  /\ cancelledFrom = [r \in Refs |-> "none"]
  /\ message = "none"
  /\ submitted = {}
  /\ posts = 0
  /\ serverJobs = <<>>
  /\ jobsTable = <<>>
  /\ uploads = {}

\* The dashboard ready to print
Init == InitSession /\ form = ReadyForm

\* Either page with any of the forms
InitForm == InitSession /\ form \in Forms

\* The dashboard as the constructor leaves it: no file, no printer
InitUpload ==
  /\ InitSession
  /\ form = [ReadyForm EXCEPT !.currentFile = "null", !.currentFileId = "null",
                              !.selectedPrinter = "null"]

\* The jobs page of app.js next to a print server without jobs
InitRetry ==
  /\ InitSession
  /\ classVersion = 2
  /\ storage = <<>>
  /\ form = [ReadyForm EXCEPT !.page = "app"]

\* --------------------------------------------------------------- actions
\* removeJobFromQueue(jobId) as a step on the queue and the history, given
\* the job objects jb as they are when it runs.
RemoveFromQueue(jb, jobId) ==
  LET jobIndex == FindIndex(jobQueue, jobId) IN
  IF jobIndex # 0
  THEN LET r == jobQueue[jobIndex] IN
       /\ jobQueue' = Splice(jobQueue, jobIndex)
       /\ jobHistory' = addJobToHistory(jobHistory, HistoryEntry(jb[r], r))
       /\ storage' = saveJobHistory(jobHistory')
  ELSE UNCHANGED <<jobQueue, jobHistory, storage>>

\* A submit handler returns after showMessage / showAlert of an error
Reject(text) ==
  /\ message' = text
  /\ UNCHANGED <<classVersion, job, jobQueue, jobHistory, storage, jobIdCounter,
                 request, task, timers, cancelledFrom, form, submitted, posts,
                 serverJobs, jobsTable,
                 uploads>>

\* printDocument / printTestPage from jobIdCounter++ up to the await of the
\* submit request, whose body is body; settings is what job.settings holds
Submit(kind, settings, body, maxJobs) ==
  /\ jobIdCounter <= maxJobs
  /\ submitted' = submitted \cup {body}
  /\ LET jobId == jobIdCounter IN
     /\ jobIdCounter' = jobIdCounter + 1
     /\ job' = [job EXCEPT ![jobId] =
                  [id |-> jobId, status |-> "pending", progress |-> 0,
                   error |-> "none", printer |-> form.selectedPrinter,
                   settings |-> settings]]
     /\ jobQueue' = addJobToQueue(jobQueue, jobId)
     /\ request' = [request EXCEPT ![jobId] = kind]
  /\ UNCHANGED <<classVersion, jobHistory, storage, task, timers, cancelledFrom,
                 form, message, posts,
                 serverJobs, jobsTable,
                 uploads>>

\* The settings printDocument puts on the job
SettingsOf(f) ==
  IF classVersion = 1 THEN getPrintSettingsFirst(f) ELSE getPrintSettings(f)

\* The check of lines 940-947 fails (second class only)
InvalidPageRange(f) ==
  LET settings == getPrintSettings(f) IN
  /\ classVersion = 2
  /\ settings.page_range # NoText
  /\ settings.page_range # OddText
  /\ settings.page_range # EvenText
  /\ ~ pageRangePattern(settings.page_range)

\* requestData of printDocument as JSON.stringify writes it: a number as its
\* digits (NaN as null), a property that is undefined left out.  The first
\* class sends printer, file and settings.copies; the second sends
\* print_settings and document_settings (lines 968-992).
RequestData(f) ==
  IF classVersion = 1
  THEN [BlankBody EXCEPT !.endpoint = "jobs/submit",
                         !.printer_id = f.selectedPrinter,
                         !.file_id = f.currentFileId,
                         !.copies = NumberText(getPrintSettingsFirst(f).copies)]
  ELSE LET settings == getPrintSettings(f)
           docProcessingSettings == getDocumentProcessingSettings(f)
       IN [BlankBody EXCEPT
             !.endpoint = "print",
             !.printer_id = f.selectedPrinter,
             !.file_id = f.currentFileId,
             !.copies = NumberText(settings.copies),
             !.page_range = settings.page_range,
             !.format_conversion = Field(docProcessingSettings, "format_conversion"),
             !.color_processing = Field(docProcessingSettings, "color_processing"),
             !.brightness = JsonNumber(docProcessingSettings.brightness),
             !.contrast = JsonNumber(docProcessingSettings.contrast),
             !.pdf_split_type = Field(docProcessingSettings, "pdf_split_type"),
             !.pdf_split_range = Field(docProcessingSettings, "pdf_split_range")]

\* printDocument() up to the await of the submit request
printDocument(maxJobs) ==
  /\ form.page = "dashboard"
  /\ IF form.currentFile = "null" \/ form.selectedPrinter = "null"
        \/ form.currentFileId = "null"
     THEN Reject("Please select a file and printer")
     ELSE IF InvalidPageRange(form)
     THEN Reject("Invalid page range format")
     ELSE Submit("doc", SettingsOf(form), RequestData(form), maxJobs)

\* printTestPage() up to the await of the submit request
printTestPage(maxJobs) ==
  /\ form.page = "dashboard"
  /\ IF form.selectedPrinter = "null"
     THEN Reject("Please select a printer")
     ELSE Submit("test", NoSettings,
                 [BlankBody EXCEPT !.endpoint = "test",
                                   !.printer_id = form.selectedPrinter],
                 maxJobs)

\* The FormData of submitPrintJob (lines 570-594): the values of the inputs
\* as they are
FormData(f) ==
  [BlankBody EXCEPT
     !.endpoint = "jobs/submit",
     !.printer_id = f.selectedPrinter,
     !.file_id = f.currentFileId,
     !.copies = f.copies,
     !.fit_to_page = f.fitToPage,
     !.has_custom_scale = (f.fitToPage = "custom"),
     !.custom_scale = IF f.fitToPage = "custom" THEN f.customScale ELSE NoText,
     !.page_range = IF f.pageRangeType = "range" THEN f.pageRangeInput ELSE NoText]

\* submitPrintJob() of app.js up to the await of the submit request
submitPrintJob ==
  /\ form.page = "app"
  /\ IF form.currentFileId = "null"
     THEN Reject("Please upload a file first")
     ELSE IF form.selectedPrinter = "null"
     THEN Reject("Please select a printer")
     ELSE IF /\ form.pageRangeType = "range"
             /\ form.pageRangeInput # NoText
             /\ ~ validatePageRange(form.pageRangeInput)
     THEN Reject("Invalid page range format")
     ELSE /\ posts < MaxPosts
          /\ posts' = posts + 1
          /\ submitted' = submitted \cup {FormData(form)}
          /\ UNCHANGED <<classVersion, job, jobQueue, jobHistory, storage,
                         jobIdCounter, request, task, timers, cancelledFrom,
                         form, message,
                         serverJobs, jobsTable,
                         uploads>>

\* submitPrintJob() from the response on: result.success runs clearFile(),
\* printForm.reset() and resetAdvancedSettings(); anything else shows an error
submitPrintJobResponse(success) ==
  /\ posts > 0
  /\ posts' = posts - 1
  /\ IF success
     THEN /\ form' = [form EXCEPT !.currentFileId = "null", !.selectedPrinter = "null",
                                  !.copies = <<"1">>, !.fitToPage = "fit",
                                  !.customScale = <<"1", "0", "0">>,
                                  !.pageRangeType = "all", !.pageRangeInput = NoText]
          /\ message' = message
     ELSE /\ message' = "Failed to submit print job"
          /\ form' = form
  /\ UNCHANGED <<classVersion, job, jobQueue, jobHistory, storage, jobIdCounter,
                 request, task, timers, cancelledFrom, submitted,
                 serverJobs, jobsTable,
                 uploads>>

\* The progress task the success branch starts: the first class calls
\* simulateJobProgress for both kinds, the second calls monitorJobProgress
\* for a document and a method it does not have for a test page.
StartedTask(kind) ==
  IF classVersion = 1 THEN "simulate"
  ELSE IF kind = "doc" THEN "monitor" ELSE "undefined"

\* Dispatch with the progress task started in the failure branches as well
DispatchStartsOnFailure(outcome, started) ==
  IF outcome = "ok" /\ started # "undefined"
  THEN [status |-> "printing", start |-> TRUE]
  ELSE [status |-> "error", start |-> started # "undefined"]

\* Dispatch with the else branch and the catch leaving job.status alone
DispatchFailureKeepsStatus(outcome, started) ==
  IF outcome = "ok" /\ started # "undefined"
  THEN [status |-> "printing", start |-> TRUE]
  ELSE [status |-> IF outcome = "ok" THEN "error" ELSE "pending", start |-> FALSE]

\* The branches after the submit request (printDocument lines 1004-1017): the
\* status written to the job and whether the progress task is started.  An
\* OK response whose branch calls a method the class does not have throws a
\* TypeError inside the try block, and the catch writes 'error'.
Dispatch(outcome, started) ==
  IF outcome = "ok" /\ started # "undefined"
  THEN [status |-> "printing", start |-> TRUE]
  ELSE [status |-> "error", start |-> FALSE]

\* printDocument / printTestPage from the response of the submit request on
SubmitResponse(r, outcome) ==
  /\ request[r] \in {"doc", "test"}
  /\ request' = [request EXCEPT ![r] = IF outcome = "ok" THEN "ok" ELSE "failed"]
  /\ LET started == StartedTask(request[r])
         d == Dispatch(outcome, started) IN
     /\ job' = [job EXCEPT ![r].status = d.status]
     /\ task' = IF d.start
                THEN [task EXCEPT ![r] =
                        [kind |-> started, active |-> TRUE, inflight |-> 0,
                         intervals |-> task[r].intervals + 1]]
                ELSE task
  /\ jobQueue' = updateJobInQueue(jobQueue, r)
  /\ UNCHANGED <<classVersion, jobHistory, storage, jobIdCounter, timers, cancelledFrom,
                 form, message, submitted, posts,
                 serverJobs, jobsTable,
                 uploads>>

\* The printers of the #printer-select control; "null" is its empty option
SelectablePrinters == {"null", "known", "second"}

\* handlePrinterSelect(e): the user picks the printer p
handlePrinterSelect(p) ==
  /\ form.page = "dashboard"
  /\ form' = [form EXCEPT !.selectedPrinter = p]
  /\ UNCHANGED <<classVersion, job, jobQueue, jobHistory, storage, jobIdCounter,
                 request, task, timers, cancelledFrom, message, submitted, posts,
                 serverJobs, jobsTable,
                 uploads>>

\* The printer in the URL of the status request of a monitor tick
StatusRequestPrinter == form.selectedPrinter

\* The interval callback of monitorJobProgress up to its await
MonitorTick(r, maxInflight) ==
  /\ task[r].kind = "monitor"
  /\ task[r].active
  /\ IF job[r].status \in {"error", "cancelled"}
     THEN /\ task' = [task EXCEPT ![r].active = FALSE]
          /\ RemoveFromQueue(job, job[r].id)
     ELSE /\ task[r].inflight < maxInflight
          /\ task' = [task EXCEPT ![r].inflight = @ + 1]
          /\ UNCHANGED <<jobQueue, jobHistory, storage>>
  /\ UNCHANGED <<classVersion, job, jobIdCounter, request, timers, cancelledFrom,
                 form, message, submitted, posts,
                 serverJobs, jobsTable,
                 uploads>>

\* MonitorOutcome with the page ratio written as it is, without the cap of 95
MonitorOutcomeUncapped(j, resp) ==
  LET afterQueue ==
        \* lines 1216-1240
        IF resp.kind # "ok" THEN [j |-> [j EXCEPT !.progress = @ + resp.rnd], stop |-> FALSE, timeouts |-> 0]
        ELSE IF resp.matched
        THEN IF resp.total > 0
             THEN [j |-> [j EXCEPT !.progress = (resp.printed * 100) \div resp.total],
                   stop |-> FALSE, timeouts |-> 0]
             ELSE [j |-> [j EXCEPT !.progress = Min(90, @ + 10)], stop |-> FALSE, timeouts |-> 0]
        ELSE IF j.progress < 95
             THEN [j |-> [j EXCEPT !.progress = Min(95, @ + 15)], stop |-> FALSE, timeouts |-> 0]
             ELSE [j |-> [j EXCEPT !.progress = 100, !.status = "completed"],
                   stop |-> TRUE, timeouts |-> 1]
  IN
  IF resp.kind = "ok" /\ resp.pstatus \in {"error", "offline"}
  THEN \* lines 1243-1249: return before the check of 100 and the update
       [j |-> [afterQueue.j EXCEPT !.status = "error", !.error = resp.pstatus],
        stop |-> TRUE,
        timeouts |-> afterQueue.timeouts, removeNow |-> TRUE]
  ELSE IF afterQueue.j.progress >= 100
  THEN \* lines 1262-1269
       [j |-> [afterQueue.j EXCEPT !.progress = 100, !.status = "completed"],
        stop |-> TRUE, timeouts |-> afterQueue.timeouts + 1, removeNow |-> FALSE]
  ELSE [j |-> afterQueue.j, stop |-> afterQueue.stop,
        timeouts |-> afterQueue.timeouts, removeNow |-> FALSE]

\* What the rest of the callback does to the job object j on response resp:
\* the object after it, whether clearInterval ran, how many removal timeouts
\* were set and whether it removed the job from the queue at once.
MonitorOutcome(j, resp) ==
  LET afterQueue ==
        \* lines 1216-1240
        IF resp.kind # "ok" THEN [j |-> [j EXCEPT !.progress = @ + resp.rnd], stop |-> FALSE, timeouts |-> 0]
        ELSE IF resp.matched
        THEN IF resp.total > 0
             THEN [j |-> [j EXCEPT !.progress = Min(95, (resp.printed * 100) \div resp.total)],
                   stop |-> FALSE, timeouts |-> 0]
             ELSE [j |-> [j EXCEPT !.progress = Min(90, @ + 10)], stop |-> FALSE, timeouts |-> 0]
        ELSE IF j.progress < 95
             THEN [j |-> [j EXCEPT !.progress = Min(95, @ + 15)], stop |-> FALSE, timeouts |-> 0]
             ELSE [j |-> [j EXCEPT !.progress = 100, !.status = "completed"],
                   stop |-> TRUE, timeouts |-> 1]
  IN
  IF resp.kind = "ok" /\ resp.pstatus \in {"error", "offline"}
  THEN \* lines 1243-1249: return before the check of 100 and the update
       [j |-> [afterQueue.j EXCEPT !.status = "error", !.error = resp.pstatus],
        stop |-> TRUE,
        timeouts |-> afterQueue.timeouts, removeNow |-> TRUE]
  ELSE IF afterQueue.j.progress >= 100
  THEN \* lines 1262-1269
       [j |-> [afterQueue.j EXCEPT !.progress = 100, !.status = "completed"],
        stop |-> TRUE, timeouts |-> afterQueue.timeouts + 1, removeNow |-> FALSE]
  ELSE [j |-> afterQueue.j, stop |-> afterQueue.stop,
        timeouts |-> afterQueue.timeouts, removeNow |-> FALSE]

\* MonitorResume without the setTimeout of the removal
MonitorResumeNoTimeout(r, resp) ==
  /\ task[r].kind = "monitor"
  /\ task[r].inflight > 0
  /\ LET out == MonitorOutcome(job[r], resp) IN
     /\ job' = [job EXCEPT ![r] = out.j]
     /\ task' = [task EXCEPT ![r].inflight = @ - 1,
                             ![r].active = IF out.stop THEN FALSE ELSE @]
     /\ timers' = timers
     /\ IF out.removeNow
        THEN RemoveFromQueue(job', out.j.id)
        ELSE /\ jobQueue' = updateJobInQueue(jobQueue, r)
             /\ UNCHANGED <<jobHistory, storage>>
  /\ UNCHANGED <<classVersion, jobIdCounter, request, cancelledFrom,
                 form, message, submitted, posts,
                 serverJobs, jobsTable,
                 uploads>>

\* The interval callback of monitorJobProgress from the response on
MonitorResume(r, resp) ==
  /\ task[r].kind = "monitor"
  /\ task[r].inflight > 0
  /\ LET out == MonitorOutcome(job[r], resp) IN
     /\ job' = [job EXCEPT ![r] = out.j]
     /\ task' = [task EXCEPT ![r].inflight = @ - 1,
                             ![r].active = IF out.stop THEN FALSE ELSE @]
     /\ timers' = SetTimeouts(timers, r, out.timeouts)
     /\ IF out.removeNow
        THEN RemoveFromQueue(job', out.j.id)
        ELSE /\ jobQueue' = updateJobInQueue(jobQueue, r)
             /\ UNCHANGED <<jobHistory, storage>>
  /\ UNCHANGED <<classVersion, jobIdCounter, request, cancelledFrom,
                 form, message, submitted, posts,
                 serverJobs, jobsTable,
                 uploads>>

\* The interval callback of simulateJobProgress
SimulateTick(r, rnd) ==
  /\ task[r].kind = "simulate"
  /\ task[r].active
  /\ IF job[r].status \in {"error", "cancelled"}
     THEN /\ task' = [task EXCEPT ![r].active = FALSE]
          /\ RemoveFromQueue(job, job[r].id)
          /\ UNCHANGED <<job, timers>>
     ELSE IF job[r].progress + rnd >= 100
     THEN /\ job' = [job EXCEPT ![r].progress = 100, ![r].status = "completed"]
          /\ task' = [task EXCEPT ![r].active = FALSE]
          /\ timers' = SetTimeouts(timers, r, 1)
          /\ jobQueue' = updateJobInQueue(jobQueue, r)
          /\ UNCHANGED <<jobHistory, storage>>
     ELSE /\ job' = [job EXCEPT ![r].progress = @ + rnd]
          /\ jobQueue' = updateJobInQueue(jobQueue, r)
          /\ UNCHANGED <<task, timers, jobHistory, storage>>
  /\ UNCHANGED <<classVersion, jobIdCounter, request, cancelledFrom,
                 form, message, submitted, posts,
                 serverJobs, jobsTable,
                 uploads>>

\* cancelJob(jobId) with the removal scheduled whether or not the job is found
cancelJobAlwaysSchedules(jobId, record) ==
  /\ LET index == FindIndex(jobQueue, jobId) IN
     IF index # 0
     THEN LET r == jobQueue[index] IN
          /\ job' = [job EXCEPT ![r].status = "cancelled", ![r].progress = 0]
          /\ jobQueue' = updateJobInQueue(jobQueue, r)
          /\ timers' = SetTimeouts(timers, jobId, 1)
          /\ cancelledFrom' = IF record
                              THEN [cancelledFrom EXCEPT ![r] = job[r].status]
                              ELSE cancelledFrom
     ELSE /\ timers' = SetTimeouts(timers, jobId, 1)
          /\ UNCHANGED <<job, jobQueue, cancelledFrom>>
  /\ UNCHANGED <<classVersion, jobHistory, storage, jobIdCounter, request, task,
                 form, message, submitted, posts,
                 serverJobs, jobsTable,
                 uploads>>

\* cancelJob(jobId); the history variable cancelledFrom is written when
\* record is TRUE
cancelJob(jobId, record) ==
  /\ LET index == FindIndex(jobQueue, jobId) IN
     IF index # 0
     THEN LET r == jobQueue[index] IN
          /\ job' = [job EXCEPT ![r].status = "cancelled", ![r].progress = 0]
          /\ jobQueue' = updateJobInQueue(jobQueue, r)
          /\ timers' = SetTimeouts(timers, jobId, 1)
          /\ cancelledFrom' = IF record
                              THEN [cancelledFrom EXCEPT ![r] = job[r].status]
                              ELSE cancelledFrom
     ELSE UNCHANGED <<job, jobQueue, timers, cancelledFrom>>
  /\ UNCHANGED <<classVersion, jobHistory, storage, jobIdCounter, request, task,
                 form, message, submitted, posts,
                 serverJobs, jobsTable,
                 uploads>>

\* A timeout set by cancelJob or by a completing tick fires
TimerFires(jobId) ==
  /\ timers[jobId] > 0
  /\ timers' = [timers EXCEPT ![jobId] = @ - 1]
  /\ RemoveFromQueue(job, jobId)
  /\ UNCHANGED <<classVersion, job, jobIdCounter, request, task, cancelledFrom,
                 form, message, submitted, posts,
                 serverJobs, jobsTable,
                 uploads>>

\* The jobs of q, each set to cancelled and copied to the history in turn
RECURSIVE ClearInto(_, _, _)
ClearInto(h, q, jb) ==
  IF q = <<>> THEN h
  ELSE ClearInto(addJobToHistory(h, HistoryEntry(jb[Head(q)], Head(q))), Tail(q), jb)

\* clearQueue()
clearQueue ==
  /\ job' = [r \in Refs |-> IF InQueue(r) THEN [job[r] EXCEPT !.status = "cancelled"] ELSE job[r]]
  /\ jobHistory' = ClearInto(jobHistory, jobQueue, job')
  /\ storage' = IF jobQueue = <<>> THEN storage ELSE saveJobHistory(jobHistory')
  /\ jobQueue' = <<>>
  /\ UNCHANGED <<classVersion, jobIdCounter, request, task, timers, cancelledFrom,
                 form, message, submitted, posts,
                 serverJobs, jobsTable,
                 uploads>>

\* clearHistory()
clearHistory ==
  /\ jobHistory' = <<>>
  /\ storage' = saveJobHistory(jobHistory')
  /\ UNCHANGED <<classVersion, job, jobQueue, jobIdCounter, request, task, timers, cancelledFrom,
                 form, message, submitted, posts,
                 serverJobs, jobsTable,
                 uploads>>

\* One session of the page: at most maxJobs submissions, at most maxInflight
\* status requests of a monitor awaiting their response, the printer's
\* answers drawn from responses and the random steps from steps; record says
\* whether the history variable cancelledFrom is kept.
Session(maxJobs, maxInflight, responses, steps, record) ==
  \/ printDocument(maxJobs)
  \/ printTestPage(maxJobs)
  \/ \E r \in Refs, outcome \in {"ok", "notOk", "throw"} : SubmitResponse(r, outcome)
  \/ \E r \in Refs : MonitorTick(r, maxInflight)
  \/ \E r \in Refs, resp \in responses : MonitorResume(r, resp)
  \/ \E r \in Refs, rnd \in steps : SimulateTick(r, rnd)
  \/ \E jobId \in Refs : cancelJob(jobId, record)
  \/ \E jobId \in Refs : TimerFires(jobId)
  \/ clearQueue
  \/ clearHistory

\* One job, every answer of the printer, overlapping polls.
Next == Session(MaxSoloJobs, MaxInflight, StatusResponses, SimulateSteps, TRUE)
Spec == Init /\ [][Next]_vars

\* Several jobs in the queue and the history, a printer that answers with
\* none or all of the pages printed.
NextQueue == Session(MaxJobs, MaxQueueInflight, CoarseResponses, CoarseSimulateSteps, FALSE)
SpecQueue == Init /\ [][NextQueue]_vars

\* One job while the user changes the selected printer.
NextSelect ==
  \/ Session(MaxSoloJobs, MaxQueueInflight, CoarseResponses, CoarseSimulateSteps, FALSE)
  \/ \E p \in SelectablePrinters : handlePrinterSelect(p)
SpecSelect == Init /\ [][NextSelect]_vars

\* ------------------------------------------------------------ file upload
\* The files the user selects, and the file_id the server gives the upload
\* of each
Files == {"fileA", "fileB"}
UploadId(file) == IF file = "fileA" THEN "idA" ELSE "idB"

\* processFile(file) up to the await of the upload
processFile(file) ==
  /\ form.page = "dashboard"
  /\ file \notin uploads
  /\ form' = [form EXCEPT !.currentFile = file]
  /\ uploads' = uploads \cup {file}
  /\ UNCHANGED <<classVersion, job, jobQueue, jobHistory, storage, jobIdCounter,
                 request, task, timers, cancelledFrom, message, submitted, posts,
                 serverJobs, jobsTable>>

\* processFile(file) from the result of the upload on: the id is stored, or
\* the catch shows the error
processFileResume(file, ok) ==
  /\ file \in uploads
  /\ uploads' = uploads \ {file}
  /\ form' = IF ok THEN [form EXCEPT !.currentFileId = UploadId(file)] ELSE form
  /\ UNCHANGED <<classVersion, job, jobQueue, jobHistory, storage, jobIdCounter,
                 request, task, timers, cancelledFrom, message, submitted, posts,
                 serverJobs, jobsTable>>

\* clearPreview()
clearPreview ==
  /\ form.page = "dashboard"
  /\ form' = [form EXCEPT !.currentFile = "null", !.currentFileId = "null"]
  /\ UNCHANGED <<classVersion, job, jobQueue, jobHistory, storage, jobIdCounter,
                 request, task, timers, cancelledFrom, message, submitted, posts,
                 serverJobs, jobsTable, uploads>>

\* Selecting files and a printer, clearing the preview and printing.
NextUpload ==
  \/ \E file \in Files : processFile(file)
  \/ \E file \in Files, ok \in BOOLEAN : processFileResume(file, ok)
  \/ clearPreview
  \/ \E p \in SelectablePrinters : handlePrinterSelect(p)
  \/ printDocument(MaxFormJobs)
  \/ \E r \in Refs, outcome \in {"ok", "notOk", "throw"} : SubmitResponse(r, outcome)
SpecUpload == InitUpload /\ [][NextUpload]_vars

\* ------------------------------------------------- the jobs page of app.js
\* The print server, from its specification: a job has an id that no other
\* job has and a status; a submission creates a pending job
ServerIds == 1..MaxServerJobs
ServerNewJob(jobs) == Append(jobs, [id |-> Len(jobs) + 1, status |-> "pending"])

\* POST /jobs/submit of any client, handled by the server
ServerSubmit ==
  /\ Len(serverJobs) < MaxServerJobs
  /\ serverJobs' = ServerNewJob(serverJobs)
  /\ UNCHANGED <<classVersion, job, jobQueue, jobHistory, storage, jobIdCounter,
                 request, task, timers, cancelledFrom, form, message, submitted,
                 posts, jobsTable,
                 uploads>>

\* The server works on job i: pending -> printing -> completed or failed
ServerProgress(i, status) ==
  /\ i \in 1..Len(serverJobs)
  /\ \/ serverJobs[i].status = "pending" /\ status = "printing"
     \/ serverJobs[i].status = "printing" /\ status \in {"completed", "failed"}
  /\ serverJobs' = [serverJobs EXCEPT ![i].status = status]
  /\ UNCHANGED <<classVersion, job, jobQueue, jobHistory, storage, jobIdCounter,
                 request, task, timers, cancelledFrom, form, message, submitted,
                 posts, jobsTable,
                 uploads>>

\* POST /jobs/{jobId}/retry: InvalidStateError unless the job is failed
ServerRetryAllowed(jobs, jobId) ==
  \E i \in 1..Len(jobs) : jobs[i].id = jobId /\ jobs[i].status = "failed"
\* retry(jobId) -> {newJobId}: a new job, the original left as it is
ServerRetry(jobs, jobId) ==
  IF ServerRetryAllowed(jobs, jobId) THEN ServerNewJob(jobs) ELSE jobs

\* displayJobs with a retry button in the rows of completed jobs too
RetryButtonAlsoCompleted(status) == status \in {"failed", "completed"}
\* displayJobs: the row of a job has a retry button
RetryButton(status) == status = "failed"
\* displayJobs(jobs): one row per job, in the order of the response
displayJobs(jobs) ==
  [i \in 1..Len(jobs) |->
     [id |-> jobs[i].id, status |-> jobs[i].status,
      retry |-> RetryButton(jobs[i].status)]]

\* loadJobs(): GET /jobs and displayJobs of the response
loadJobs ==
  /\ jobsTable' = displayJobs(serverJobs)
  /\ UNCHANGED <<classVersion, job, jobQueue, jobHistory, storage, jobIdCounter,
                 request, task, timers, cancelledFrom, form, message, submitted,
                 posts, serverJobs,
                 uploads>>

\* retryJob(jobId), called from the retry button of a row; reached: the
\* request got to the server
retryJob(jobId, reached) ==
  /\ \E i \in 1..Len(jobsTable) : jobsTable[i].id = jobId /\ jobsTable[i].retry
  /\ Len(serverJobs) < MaxServerJobs
  /\ IF reached /\ ServerRetryAllowed(serverJobs, jobId)
     THEN /\ serverJobs' = ServerRetry(serverJobs, jobId)
          /\ message' = "Job queued for retry"
          /\ jobsTable' = displayJobs(serverJobs')
     ELSE /\ message' = "Failed to retry job"
          /\ UNCHANGED <<serverJobs, jobsTable>>
  /\ UNCHANGED <<classVersion, job, jobQueue, jobHistory, storage, jobIdCounter,
                 request, task, timers, cancelledFrom, form, submitted, posts,
                 uploads>>

\* The jobs table of app.js and the print server.
NextRetry ==
  \/ ServerSubmit
  \/ \E i \in ServerIds, status \in {"printing", "completed", "failed"} :
       ServerProgress(i, status)
  \/ loadJobs
  \/ \E jobId \in ServerIds, reached \in BOOLEAN : retryJob(jobId, reached)
SpecRetry == InitRetry /\ [][NextRetry]_vars

\* Submission from either page with one of the forms: the guards of the
\* handlers, the requests they send and the answers to them.
NextForm ==
  \/ printDocument(MaxFormJobs)
  \/ printTestPage(MaxFormJobs)
  \/ \E r \in Refs, outcome \in {"ok", "notOk", "throw"} : SubmitResponse(r, outcome)
  \/ submitPrintJob
  \/ \E success \in BOOLEAN : submitPrintJobResponse(success)
SpecForm == InitForm /\ [][NextForm]_vars

\* The callbacks the browser has scheduled do run: a timeout fires, an
\* interval ticks, a request comes back.  What the user does (submit, cancel,
\* clear) is under no fairness.
FairSpec ==
  /\ Spec
  /\ \A r \in Refs :
       /\ WF_vars(\E outcome \in {"ok", "notOk", "throw"} : SubmitResponse(r, outcome))
       /\ WF_vars(MonitorTick(r, MaxInflight))
       /\ WF_vars(\E resp \in StatusResponses : MonitorResume(r, resp))
       /\ WF_vars(\E rnd \in SimulateSteps : SimulateTick(r, rnd))
       /\ WF_vars(TimerFires(r))

\* The session of Spec next to a status endpoint that always answers and
\* never reports the printer offline or in error, under the same fairness.
NextReady == Session(MaxSoloJobs, MaxInflight, ReadyResponses, SimulateSteps, TRUE)
FairReadySpec ==
  /\ Init /\ [][NextReady]_vars
  /\ \A r \in Refs :
       /\ WF_vars(\E outcome \in {"ok", "notOk", "throw"} : SubmitResponse(r, outcome))
       /\ WF_vars(MonitorTick(r, MaxInflight))
       /\ WF_vars(\E resp \in ReadyResponses : MonitorResume(r, resp))
       /\ WF_vars(\E rnd \in SimulateSteps : SimulateTick(r, rnd))
       /\ WF_vars(TimerFires(r))

\* ================================================================ claims
Live == {"pending", "printing"}

\* C1: once a job's status is completed, error or cancelled, no step changes
\* the status of that job again.
TerminalAbsorbing ==
  [][\A r \in Refs : job[r].status \in Terminal => job'[r].status = job[r].status]_vars

\* C2: when cancelJob has set a printing job to cancelled while a status
\* request of its monitor was awaiting the response, the tick that resumes
\* leaves the status cancelled.
CancelNotOverwritten ==
  [][\A r \in Refs :
       ( /\ cancelledFrom[r] = "printing"
         /\ job[r].status = "cancelled"
         /\ task'[r].inflight < task[r].inflight )
       => job'[r].status = "cancelled"]_vars

\* C3: after cancelJob on a printing job, no step of the job's monitor writes
\* the job's progress and the monitor sends no further status request.
CancelQuiescesMonitor ==
  [][\A r \in Refs :
       (cancelledFrom[r] = "printing" /\ task'[r] # task[r])
       => ( /\ job'[r].progress = job[r].progress
            /\ task'[r].inflight <= task[r].inflight )]_vars

\* C4: a job cancelled while pending has status cancelled for good, no submit
\* request was sent for it, and no progress task is started for it.
CancelPendingNoDispatch ==
  \A r \in Refs :
    cancelledFrom[r] = "pending"
    => ( /\ job[r].status = "cancelled"
         /\ request[r] = "none"
         /\ task[r].kind = "none" )

\* C5: while a job is pending or printing its progress never goes down from
\* one step to the next.
ProgressMonotone ==
  [][\A r \in Refs :
       (job[r].status \in Live /\ job'[r].status \in Live)
       => job'[r].progress >= job[r].progress]_vars

\* C6: a job's status changes only along created -> pending, pending ->
\* printing, printing -> completed, printing -> error, pending -> cancelled,
\* printing -> cancelled and pending -> error.
AllowedEdges ==
  { <<"none", "pending">>, <<"pending", "printing">>, <<"printing", "completed">>,
    <<"printing", "error">>, <<"pending", "cancelled">>, <<"printing", "cancelled">>,
    <<"pending", "error">> }
StatusFollowsGraph ==
  [][\A r \in Refs :
       job'[r].status # job[r].status
       => <<job[r].status, job'[r].status>> \in AllowedEdges]_vars

\* C7: no job id is at once the id of a job of the active queue and the id
\* of an entry of the history.
QueueHistoryDisjoint ==
  \A i \in 1..Len(jobQueue), k \in 1..Len(jobHistory) :
    job[jobQueue[i]].id # jobHistory[k].id

\* C8: the history never holds more than 20 entries; a step that takes n jobs
\* out of the queue puts their copies in the first n places of the history,
\* keeps the older entries behind them in their order and drops only the
\* last ones beyond 20; any other step leaves the history as it is or empties it.
HistoryStep ==
  LET n == Len(jobQueue) - Len(jobQueue') IN
  IF n > 0
  THEN /\ Len(jobHistory') = Min(Len(jobHistory) + n, HistoryCap)
       /\ { jobHistory'[i].obj : i \in 1..n }
            = { r \in Refs : InQueue(r) /\ ~ InQueue(r)' }
       /\ \A i \in (n + 1)..Len(jobHistory') : jobHistory'[i] = jobHistory[i - n]
  ELSE jobHistory' = jobHistory \/ jobHistory' = <<>>
HistoryCappedFrontInsert ==
  [](Len(jobHistory) <= HistoryCap) /\ [][HistoryStep]_vars

\* C8 witness: two jobs of the session were inserted into a loaded history of
\* 19 entries, and the oldest loaded entry (id 1) is gone.
OldestEvicted ==
  /\ Len(jobHistory) = HistoryCap
  /\ jobHistory[1].obj # 0
  /\ jobHistory[2].obj # 0
  /\ jobHistory[3].obj = 0
  /\ \A i \in 1..Len(jobHistory) : ~ (jobHistory[i].obj = 0 /\ jobHistory[i].id = 1)

\* C9: every entry of the history has status completed, error or cancelled.
HistoryOnlyTerminal ==
  \A i \in 1..Len(jobHistory) : jobHistory[i].status \in Terminal

\* C10: a job of the queue whose status is completed, error or cancelled is
\* eventually out of the queue (removeJobFromQueue has moved it to the history).
TerminalEventuallyArchived ==
  \A r \in Refs :
    (InQueue(r) /\ job[r].status \in Terminal) ~> ~ InQueue(r)

\* C11: the step that creates a job leaves it in the queue with status
\* pending and progress 0 and with its submit request in flight, no outcome
\* recorded on it; an outcome is recorded only by a later step, on a job
\* whose request is in flight.
JobRegisteredBeforeOutcome ==
  [][\A r \in Refs :
       /\ (job[r].status = "none" /\ job'[r].status # "none")
          => ( /\ job'[r].status = "pending"
               /\ job'[r].progress = 0
               /\ InQueue(r)'
               /\ request'[r] \in {"doc", "test"} )
       /\ (request'[r] \in {"ok", "failed"} /\ request[r] \notin {"ok", "failed"})
          => ( /\ request[r] \in {"doc", "test"}
               /\ job[r].status # "none" )]_vars

\* C11 witness: a document job is in the queue, pending at progress 0, while
\* its submit request awaits the response.
PendingVisibleInFlight ==
  \E r \in Refs :
    /\ InQueue(r)
    /\ job[r].status = "pending"
    /\ job[r].progress = 0
    /\ request[r] = "doc"

\* C12: no job ever has more than one interval, an active interval is the
\* one interval of its job, and an interval is started only by the step that
\* takes the OK response of the submit request and sets the job to printing,
\* for a job that has none.
OneMonitorPerJob ==
  /\ [](\A r \in Refs :
          /\ task[r].intervals <= 1
          /\ task[r].active => task[r].intervals = 1)
  /\ [][\A r \in Refs :
          task'[r].intervals # task[r].intervals
          => ( /\ task[r].intervals = 0
               /\ request[r] \in {"doc", "test"}
               /\ request'[r] = "ok"
               /\ job'[r].status = "printing" )]_vars

\* C12 witness: the one monitor of a document job is active with a status
\* request awaiting its response.
MonitorPolling ==
  \E r \in Refs :
    /\ task[r].kind = "monitor"
    /\ task[r].active
    /\ task[r].intervals = 1
    /\ task[r].inflight > 0

\* C13: the step that takes a non-OK response or a network error of the
\* submit request of printDocument sets the job's status to error, leaves its
\* progress at 0, takes nothing out of the queue and starts no interval; a
\* job whose submit request failed never has a progress task.
DispatchFailureMarksError ==
  /\ [](\A r \in Refs : request[r] = "failed" => task[r] = NoTask)
  /\ [][\A r \in Refs :
          (request[r] = "doc" /\ request'[r] = "failed")
          => ( /\ job'[r].status = "error"
               /\ job'[r].progress = 0
               /\ jobQueue' = jobQueue
               /\ jobHistory' = jobHistory
               /\ task' = task )]_vars

\* C13 witness: a job whose submit request failed is in the queue with status
\* error, progress 0 and no progress task.
FailedDispatchObservable ==
  \E r \in Refs :
    /\ request[r] = "failed"
    /\ InQueue(r)
    /\ job[r].status = "error"
    /\ job[r].progress = 0
    /\ task[r] = NoTask

\* C14: the tick that takes a printer status of offline or error for a
\* printing job sets the job to error with job.error naming the status and
\* stops the interval; once job.error is set, no step of the monitor writes
\* to the job and the monitor sends no further status request.
DeviceFailureStopsMonitor ==
  [][\A r \in Refs :
       /\ ( /\ job[r].status = "printing"
            /\ \E resp \in StatusResponses :
                 /\ resp.kind = "ok"
                 /\ resp.pstatus \in {"error", "offline"}
                 /\ MonitorResume(r, resp) )
          => ( /\ job'[r].status = "error"
               /\ job'[r].error \in {"error", "offline"}
               /\ ~ task'[r].active )
       /\ (job[r].error # "none" /\ task'[r] # task[r])
          => ( /\ job'[r] = job[r]
               /\ task'[r].inflight <= task[r].inflight )]_vars

\* C15: a tick of an active monitor of a printing job whose status request
\* came back non-OK or threw leaves the job printing and the interval active.
TransientFailureKeepsPolling ==
  [][\A r \in Refs :
       ( /\ job[r].status = "printing"
         /\ task[r].active
         /\ \E resp \in FailedResponses : MonitorResume(r, resp) )
       => ( /\ job'[r].status = "printing"
            /\ task'[r].active )]_vars

\* C16: a printing job followed by a monitor never has a progress above 95;
\* its progress becomes 100 only in a step that sets the status to completed,
\* and that step is a tick whose status request came back OK with no queue
\* entry matching the job.
ProgressCappedUntilConfirmed ==
  /\ [](\A r \in Refs :
          (task[r].kind = "monitor" /\ job[r].status = "printing")
          => job[r].progress <= 95)
  /\ [][\A r \in Refs :
          (task[r].kind = "monitor" /\ job[r].progress # 100 /\ job'[r].progress = 100)
          => ( /\ job'[r].status = "completed"
               /\ \E resp \in StatusResponses :
                    /\ resp.kind = "ok"
                    /\ ~ resp.matched
                    /\ MonitorResume(r, resp) )]_vars

\* C20: cancelJob on the id of a job whose status is completed, error or
\* cancelled leaves the status and the progress of that job as they are.
CancelTerminalNoOp ==
  [][\A jobId \in Refs :
       cancelJob(jobId, TRUE)
       => \A r \in Refs :
            (job[r].id = jobId /\ job[r].status \in Terminal)
            => ( /\ job'[r].status = job[r].status
                 /\ job'[r].progress = job[r].progress )]_vars

\* C17: a document submission (printDocument, submitPrintJob) with the file or
\* the printer reference missing or unknown to the server, and a test page
\* with the printer missing or unknown, create no job (jobs, queue, history
\* and id counter stay as they are) and send no request.
HasDocumentRefs ==
  /\ form.currentFileId = "known"
  /\ form.selectedPrinter = "known"
  /\ form.page = "dashboard" => form.currentFile = "file"
MissingReferenceNoJob ==
  [][ /\ ((printDocument(MaxFormJobs) \/ submitPrintJob) /\ ~ HasDocumentRefs)
         => UNCHANGED <<job, jobQueue, jobHistory, jobIdCounter, request,
                        submitted, posts>>
      /\ (printTestPage(MaxFormJobs) /\ form.selectedPrinter # "known")
         => UNCHANGED <<job, jobQueue, jobHistory, jobIdCounter, request,
                        submitted, posts>> ]_vars

\* The grammar of explicit page ranges: tokens separated by commas, white
\* space allowed after a comma only, each token a number or two numbers
\* joined by a hyphen.
IsNumber(t) == t # <<>> /\ \A i \in 1..Len(t) : IsDigit(t[i])
IsRangeToken(t) ==
  \/ IsNumber(t)
  \/ \E k \in 1..Len(t) :
       /\ t[k] = "-"
       /\ IsNumber(SubSeq(t, 1, k - 1))
       /\ IsNumber(SubSeq(t, k + 1, Len(t)))
\* The tokens of s: what lies between two neighbouring commas (or ends),
\* without the white space after the comma
RangeTokens(s) ==
  LET cuts == {0} \cup {i \in 1..Len(s) : s[i] = ","} \cup {Len(s) + 1} IN
  { IF ab[1] = 0 THEN SubSeq(s, 1, ab[2] - 1)
    ELSE TrimStart(SubSeq(s, ab[1] + 1, ab[2] - 1)) :
      ab \in { cd \in cuts \X cuts :
                 /\ cd[1] < cd[2]
                 /\ ~ \E c \in cuts : cd[1] < c /\ c < cd[2] } }
InGrammar(s) == \A t \in RangeTokens(s) : IsRangeToken(t)

\* C18: with file and printer present, a submission whose explicit page
\* range (not odd, not even) matches the grammar is accepted and one whose
\* range does not match is rejected, and a rejected submission creates no
\* job and sends no request; in printDocument as in submitPrintJob (white
\* space around the range is not counted).
PageRangeAcceptedIffGrammar ==
  [][ /\ ( /\ printDocument(MaxFormJobs)
           /\ classVersion = 2
           /\ "null" \notin {form.currentFile, form.currentFileId, form.selectedPrinter}
           /\ getPrintSettings(form).page_range \notin {NoText, OddText, EvenText} )
         => ( /\ jobIdCounter' # jobIdCounter <=> InGrammar(getPrintSettings(form).page_range)
              /\ jobIdCounter' = jobIdCounter
                 => UNCHANGED <<job, jobQueue, jobHistory, request, submitted>> )
      /\ ( /\ submitPrintJob
           /\ "null" \notin {form.currentFileId, form.selectedPrinter}
           /\ form.pageRangeType = "range"
           /\ form.pageRangeInput # NoText )
         => ( /\ posts' # posts <=> InGrammar(Trim(form.pageRangeInput))
              /\ posts' = posts => submitted' = submitted ) ]_vars

\* A token in order: a page of at least 1, or a-b with 1 <= a <= b
TokenPositiveOrdered(t) ==
  \/ IsNumber(t) /\ NumberValue(t) >= 1
  \/ \E k \in 1..Len(t) :
       /\ t[k] = "-"
       /\ IsNumber(SubSeq(t, 1, k - 1))
       /\ IsNumber(SubSeq(t, k + 1, Len(t)))
       /\ NumberValue(SubSeq(t, 1, k - 1)) >= 1
       /\ NumberValue(SubSeq(t, 1, k - 1)) <= NumberValue(SubSeq(t, k + 1, Len(t)))

\* C19: every explicit page range of a request that was sent consists of
\* tokens that are a page number of at least 1 or a-b with 1 <= a <= b.
SentRangesPositiveOrdered ==
  \A body \in submitted :
    body.page_range \notin {NoText, OddText, EvenText}
    => \A t \in RangeTokens(body.page_range) : TokenPositiveOrdered(t)

\* C23: no two distinct jobs of the active queue and the history share an
\* id: not two jobs of the queue, not two entries of the history, and not a
\* job of the queue and a history entry copied from another job (entries
\* restored from localStorage included).
JobIdsUnique ==
  /\ \A i, k \in 1..Len(jobQueue) :
       i # k => job[jobQueue[i]].id # job[jobQueue[k]].id
  /\ \A i, k \in 1..Len(jobHistory) :
       i # k => jobHistory[i].id # jobHistory[k].id
  /\ \A i \in 1..Len(jobQueue), k \in 1..Len(jobHistory) :
       jobHistory[k].obj # jobQueue[i] => jobHistory[k].id # job[jobQueue[i]].id

\* C24: the progress of every job lies in 0..100, and a completed job has
\* progress 100.
ProgressInRange ==
  \A r \in Refs :
    job[r].status # "none"
    => ( /\ job[r].progress >= 0
         /\ job[r].progress <= 100
         /\ job[r].status = "completed" => job[r].progress = 100 )

\* C25: a job that leaves the queue is in the history after the same step,
\* and an entry leaves the history only when the history was full and the
\* entry was behind every entry that stays (eviction of the oldest).
NoJobLost ==
  [][ /\ \A r \in Refs :
           (InQueue(r) /\ ~ InQueue(r)')
           => \E i \in 1..Len(jobHistory') : jobHistory'[i].obj = r
      /\ \A k \in 1..Len(jobHistory) :
           (\A i \in 1..Len(jobHistory') : jobHistory'[i] # jobHistory[k])
           => ( /\ Len(jobHistory') = HistoryCap
                /\ \A m \in 1..(k - 1) :
                     \E i \in 1..Len(jobHistory') : jobHistory'[i] = jobHistory[m] ) ]_vars

\* C26: the list in localStorage is the serialization of the history in
\* memory, and loading it gives back the history in memory: the same records
\* in the same order.
PersistedRoundTrip ==
  /\ storage = saveJobHistory(jobHistory)
  /\ loadJobHistory(storage) = jobHistory

\* The text of an integer: an optional minus sign, then digits
IsIntegerText(t) ==
  LET d == IF t # <<>> /\ Head(t) = "-" THEN Tail(t) ELSE t
  IN d # <<>> /\ \A i \in 1..Len(d) : IsDigit(d[i])
IntegerOf(t) ==
  IF Head(t) = "-" THEN 0 - NumberValue(Tail(t)) ELSE NumberValue(t)
CopiesOutOfBounds(f) == IsIntegerText(f.copies) /\ IntegerOf(f.copies) < 1

\* C27: a submission (printDocument of the dashboard, submitPrintJob of
\* app.js) whose copies input holds an integer below 1 ends with an error
\* message, creates no job and sends no request.
CopiesOutOfBoundsRejected ==
  [][ (CopiesOutOfBounds(form) /\ (printDocument(MaxFormJobs) \/ submitPrintJob))
      => ( /\ message' # "none"
           /\ job' = job
           /\ jobQueue' = jobQueue
           /\ submitted' = submitted ) ]_vars

IsPositiveIntegerText(t) ==
  /\ t # <<>>
  /\ \A i \in 1..Len(t) : IsDigit(t[i])
  /\ NumberValue(t) >= 1

\* C28: a request that was sent carries a custom scale exactly when its
\* fit-to-page is custom, and then the custom scale is a positive integer.
CustomScaleIffCustom ==
  \A body \in submitted :
    /\ body.has_custom_scale <=> body.fit_to_page = "custom"
    /\ body.fit_to_page = "custom" => IsPositiveIntegerText(body.custom_scale)

\* A text with a character that is not white space
HasVisibleText(t) == \E i \in 1..Len(t) : ~ IsSpace(t[i])

\* C29: the settings printDocument of the second class puts on a job follow
\* the split mode of the form: "single" gives split enabled with range "all";
\* "pages" gives split enabled exactly when the split range has text, and
\* then a non-empty range; every other case gives split disabled with a null
\* range.
SplitSettingsFollowMode ==
  [][ \A r \in Refs :
        ( /\ classVersion = 2
          /\ job[r].status = "none"
          /\ job'[r].status = "pending"
          /\ request'[r] = "doc" )
        => LET settings == job'[r].settings
               enabledWithRange ==
                 /\ settings.split_pdf
                 /\ HasVisibleText(settings.split_page_range)
               disabled ==
                 /\ ~ settings.split_pdf
                 /\ settings.split_page_range = NoText
           IN /\ form.pdfSplit = "single"
                 => settings.split_pdf /\ settings.split_page_range = AllText
              /\ form.pdfSplit = "pages"
                 => IF HasVisibleText(form.splitRange) THEN enabledWithRange
                    ELSE disabled
              /\ form.pdfSplit \notin {"single", "pages"} => disabled ]_vars

\* A job submitted from a form with split mode "single" holds split enabled
\* and the range "all"
SingleSplitJob ==
  /\ classVersion = 2
  /\ form.pdfSplit = "single"
  /\ \E r \in Refs : /\ job[r].status = "pending"
                      /\ request[r] = "doc"
                      /\ job[r].settings.split_pdf
                      /\ job[r].settings.split_page_range = AllText

\* Every document-processing control of the form at its neutral default
NeutralProcessing(f) ==
  /\ f.targetFormat = "none"
  /\ f.colorProcessing = "none"
  /\ f.pdfSplit = "none"
  /\ f.brightness = <<"1">>
  /\ f.contrast = <<"1">>
\* A property of the request that is null or left out
NullOrAbsent(v) == v \in {"null", "undefined"}
NullOrAbsentNumber(t) == t \in {NullText, NoText}

\* C30: the document_settings of a request printDocument sent are all null
\* when every document-processing control is at its neutral default, and a
\* selected target format or split type is sent as the user chose it.
ProcessingSettingsSent ==
  \A body \in submitted :
    body.endpoint = "print"
    => /\ NeutralProcessing(form)
          => ( /\ NullOrAbsent(body.format_conversion)
               /\ NullOrAbsent(body.color_processing)
               /\ NullOrAbsentNumber(body.brightness)
               /\ NullOrAbsentNumber(body.contrast)
               /\ NullOrAbsent(body.pdf_split_type)
               /\ NullOrAbsent(body.pdf_split_range) )
       /\ form.targetFormat # "none" => body.format_conversion = form.targetFormat
       /\ form.pdfSplit # "none" => body.pdf_split_type = form.pdfSplit

\* C22: the status request of every monitor tick of a job names the printer
\* recorded on the job when it was submitted.
MonitorQueriesJobPrinter ==
  [][ \A r \in Refs :
        (task[r].kind = "monitor" /\ task'[r].inflight > task[r].inflight)
        => StatusRequestPrinter = job[r].printer ]_vars

MatchedEntrySetsProgress ==
  [][ \A r \in Refs, resp \in StatusResponses :
        (resp.kind = "ok" /\ resp.matched /\ MonitorResume(r, resp))
        => job'[r].progress =
             IF resp.total > 0
             THEN Min(95, (resp.printed * 100) \div resp.total)
             ELSE Min(90, job[r].progress + 10) ]_vars

\* A printing job whose monitor has shown half of the pages printed
HalfPrinted ==
  \E r \in Refs : /\ task[r].kind = "monitor"
                  /\ task[r].active
                  /\ task[r].inflight = 0
                  /\ job[r].status = "printing"
                  /\ job[r].progress = 50

\* C33: the polls of one monitor do not overlap: a job never has more than
\* one printer-status request awaiting its response.
PollsDoNotOverlap ==
  \A r \in Refs : task[r].kind = "monitor" => task[r].inflight <= 1

\* C35: cancelJob with an id that no job of the active queue has (an id never
\* given out, or that of a job already in the history) changes neither the
\* queue nor the history and sets no removal timeout.
CancelUnknownNoEffect ==
  [][ \A jobId \in Refs :
        ( /\ FindIndex(jobQueue, jobId) = 0
          /\ \E record \in BOOLEAN : cancelJob(jobId, record) )
        => ( /\ jobQueue' = jobQueue
             /\ jobHistory' = jobHistory
             /\ timers' = timers
             /\ job' = job ) ]_vars

\* A job that has left the queue for the history, with no removal pending:
\* its id is one cancelJob does not find
ArchivedJobNotInQueue ==
  \E r \in Refs :
    /\ job[r].status = "completed"
    /\ ~ InQueue(r)
    /\ FindIndex(jobQueue, job[r].id) = 0
    /\ timers[r] = 0
    /\ \E i \in 1..Len(jobHistory) : jobHistory[i].obj = r

\* C36: the two page-range validators agree on every page-range input:
\* validatePageRange of app.js accepts it exactly when the check of
\* printDocument accepts what getPrintSettings makes of it (the input
\* without the white space around it).
ValidatorsAgree ==
  Trim(form.pageRangeInput) # NoText
  => ( validatePageRange(form.pageRangeInput)
       <=> pageRangePattern(Trim(form.pageRangeInput)) )

\* C38: the step of printTestPage that takes an OK response for a pending
\* test-page job sets the job to printing and starts a progress task for it;
\* it does not set the job to error.
TestPageAcceptedPrints ==
  [][ \A r \in Refs :
        ( /\ request[r] = "test"
          /\ request'[r] = "ok"
          /\ job[r].status = "pending" )
        => ( /\ job'[r].status = "printing"
             /\ task'[r].kind # "none"
             /\ task'[r].active ) ]_vars

\* A job that clearQueue took out of the queue: it is in the history as
\* cancelled and cancelJob never hit it
ClearedJob(r) ==
  /\ ~ InQueue(r)
  /\ cancelledFrom[r] = "none"
  /\ \E i \in 1..Len(jobHistory) :
       jobHistory[i].obj = r /\ jobHistory[i].status = "cancelled"

\* clearQueue empties the queue and puts every job of it into the history
\* once, as cancelled, a job queued later before a job queued earlier
ClearQueueArchives ==
  clearQueue
  => /\ jobQueue' = <<>>
     /\ \A k \in 1..Len(jobQueue) :
          \E i \in 1..Len(jobHistory') :
            /\ jobHistory'[i].obj = jobQueue[k]
            /\ jobHistory'[i].status = "cancelled"
            /\ \A m \in 1..Len(jobHistory') :
                 jobHistory'[m].obj = jobQueue[k] => m = i
            /\ \A n \in 1..(k - 1) :
                 \E m \in (i + 1)..Len(jobHistory') : jobHistory'[m].obj = jobQueue[n]
     /\ Len(jobHistory') = Min(HistoryCap, Len(jobHistory) + Len(jobQueue))

\* The tick of a monitor of a job that clearQueue removed stops the monitor
\* and leaves the history as it is
ClearedMonitorStops ==
  \A r \in Refs :
    ( /\ ClearedJob(r)
      /\ task[r].kind = "monitor"
      /\ task[r].active
      /\ MonitorTick(r, MaxInflight) )
    => ( /\ ~ task'[r].active
         /\ jobHistory' = jobHistory )

\* C34: clearQueue leaves the queue empty and every job that was in it once
\* in the history with status cancelled, the most recently queued first, and
\* the monitor of such a job stops at its next tick without changing the
\* history.
ClearQueueCancelsAll ==
  [][ClearQueueArchives /\ ClearedMonitorStops]_vars

\* Every response the monitor of job r takes is one without a matching entry
QuietStep(r) ==
  \A resp \in ReadyResponses :
    MonitorResume(r, resp) => \E quiet \in QuietResponses : MonitorResume(r, quiet)
\* Job r is completed at progress 100 with its monitor stopped
CompletedAtFull(r) ==
  /\ job[r].status = "completed"
  /\ job[r].progress = 100
  /\ ~ task[r].active
\* Job r is completed, its monitor has stopped and it has left the queue for
\* the history
CompletedAndArchived(r) ==
  /\ job[r].status = "completed"
  /\ ~ task[r].active
  /\ ~ InQueue(r)
  /\ \E i \in 1..Len(jobHistory) :
       jobHistory[i].obj = r /\ jobHistory[i].status = "completed"

\* Job r is printing in the queue with its monitor running, and neither
\* cancelJob nor clearQueue has hit it
PrintingNeverCancelled(r) ==
  /\ job[r].status = "printing"
  /\ task[r].kind = "monitor"
  /\ task[r].active
  /\ InQueue(r)
  /\ cancelledFrom[r] = "none"

\* C32: with a status endpoint that always answers and never reports the
\* printer offline or in error, if from some point on no response holds a
\* queue entry matching the job, a printing job that was not cancelled is
\* eventually completed at progress 100 with its monitor stopped, and
\* eventually in the history as completed, unless it is cancelled on the way.
QuietPrinterCompletes ==
  \A r \in Refs :
    <>[][QuietStep(r)]_vars
    => /\ PrintingNeverCancelled(r)
          ~> (CompletedAtFull(r) \/ job[r].status = "cancelled")
       /\ PrintingNeverCancelled(r)
          ~> (CompletedAndArchived(r) \/ job[r].status = "cancelled")

\* A job that the monitor took for completed is in the history
MonitoredJobArchived ==
  \E r \in Refs : task[r].kind = "monitor" /\ CompletedAndArchived(r)

\* C37: whenever currentFile and currentFileId are both set, currentFileId
\* is the id the server gave the upload of currentFile.
FileIdMatchesFile ==
  (form.currentFile \in Files /\ form.currentFileId # "null")
  => form.currentFileId = UploadId(form.currentFile)
====
